---- MODULE Spec2Model ----
(***************************************************************************)
(* DWG POS (src/main.py): the payment submission and account-ledger        *)
(* posting sequence.  process_payment parses the amount field, calls the   *)
(* payment gateway, journals the outcome in transactions.csv and, for an   *)
(* approved payment, calls apply_payment, which posts the payment to the   *)
(* accounting database inside one database transaction.  check_card is the *)
(* Luhn check that enables the Process Payment button.                     *)
(*                                                                         *)
(* Not modelled: the Windows event log (win32evtlogutil.ReportEvent), the   *)
(* prints, the expiry and CVC fields, and failures of the local files      *)
(* (transactions.csv, failed_payments.txt).  The handlers of psycopg2      *)
(* errors in process_payment (lines 1214-1245) are not modelled either: no *)
(* exception of these classes leaves apply_payment, whose own handlers     *)
(* catch every exception of its body.                                      *)
(*                                                                         *)
(* Text is a sequence of one-character strings, so that strip, split,      *)
(* isnumeric, replace and the Decimal parse are computed as the code       *)
(* computes them.  The numeric columns of the database are held in         *)
(* hundredths of a dollar; the dollar amount process_payment hands to      *)
(* apply_payment is held as the text Python prints for it, and the SQL     *)
(* casts read that text back.  Rounding of float arithmetic is outside     *)
(* the model.                                                              *)
(***************************************************************************)
EXTENDS Integers, Sequences, FiniteSets, TLC

(***************************************************************************)
(* Bounds of the model.                                                    *)
(***************************************************************************)
\* number of payment submissions (runs of process_payment) explored
MaxRuns == 1
\* number of free trailing digits of the card numbers given to check_card
MaxTail == 2

(***************************************************************************)
(* Program constants.                                                      *)
(***************************************************************************)
\* "if amount > 300000" (cents)
AmountCeiling == 300000
\* "length == 16"
CardLength == 16
\* account "00000": payment for a new account, nothing is posted
Sentinel == <<"0", "0", "0", "0", "0">>

DigitChars == {"0", "1", "2", "3", "4", "5", "6", "7", "8", "9"}
DigitVal == ("0" :> 0) @@ ("1" :> 1) @@ ("2" :> 2) @@ ("3" :> 3) @@ ("4" :> 4) @@
            ("5" :> 5) @@ ("6" :> 6) @@ ("7" :> 7) @@ ("8" :> 8) @@ ("9" :> 9)

\* the response_codes dictionary
response_codes ==
     "APPROVED" :> "Success: The transaction was approved." @@
     "DECLINED" :> "Error: The customer's bank declined the transaction.\nNext Steps: The customer should use an alternate card and contact their bank." @@
     "PICKUP_CARD" :> "Error: The customer's bank declined the transaction because the card was reported lost or stolen.\nNext Steps: The customer should use an alternate card and contact their bank." @@
     "HOT_CARD" :> "Error: The customer's bank declined the transaction because the card was reported lost or stolen.\nNext Steps: The customer should use an alternate card and contact their bank." @@
     "LOST_CARD_PICKUP" :> "Error: The customer's bank declined the transaction because the card was reported lost or stolen.\nNext Steps: The customer should use an alternate card and contact their bank." @@
     "SUSPECTED_FRAUD" :> "Error: The customer's bank declined the transaction because it suspects fraud.\nNext Steps: The customer should contact their bank for more information." @@
     "EXPIRED_CARD" :> "Error: The customer's bank declined the transaction because the card is expired.\nNext Steps: The customer should use an alternate card. If the customer believes that the card is still valid, they should contact their bank." @@
     "CVC_MISMATCH" :> "Error: The customer's bank declined the transaction because the card's security code (CVV) did not match.\nNext Steps: The customer should try again using the correct security code." @@
     "INVALID_MERCHANT" :> "Error: The customer's bank declined the transaction because they don't allow transactions from us.\nNext Steps: The customer should contact their bank for more information." @@
     "INVALID_CURRENCY" :> "Error: The customer's bank declined the transaction because the card does not allow transactions in AUD.\nNext Steps: The customer should use an alternate card and contact their bank." @@
     "CARD_TYPE_NOT_ENABLED" :> "Error: The customer's bank declined the transaction because this type of payment is not allowed.\nNext Steps: The customer should use an alternate card and contact their bank." @@
     "SYSTEM_ERROR" :> "Error: The customer's bank declined the transaction due to a technical issue.\nNext Steps: The customer should try again later or pay using an alternate method." @@
     "LIMIT_EXCEEDED" :> "Error: The customer's bank declined the transaction because it will exceed the customer's card limit.\nNext Steps: The customer should use an alternate card or try again tomorrow." @@
     "MERCHANT_LOCKED_OR_CLOSED" :> "Error: The customer's bank declined the transaction because the merchant's account is locked or closed.\nNext Steps: The customer should use an alternate card and contact their bank." @@
     "TOO_MANY_DECLINES" :> "Error: The customer's bank declined the transaction due to too many recent transactions failing.\nNext Steps: The customer should use an alternate card or contact their bank." @@
     "INVALID_CARD_NUMBER" :> "Error: The customer's bank declined the transaction because the card number is invalid.\nNext Steps: The customer should check their card number and try again." @@
     "DO_NOT_HONOUR" :> "Error: The customer's bank declined the transaction but did not provide any more information.\nNext Steps: The customer should check the card details and try again." @@
     "RESTRICTED_CARD" :> "Error: The customer's bank declined the transaction because the card cannot be used for this type of transaction.\nNext Steps: The customer should use an alternate card and contact their bank." @@
     "INSUFFICIENT_FUNDS" :> "Error: The customer's bank declined the transaction due to insufficient funds in their account\nNext Steps: The customer should use an alternate card or transfer some funds." @@
     "UNKNOWN" :> "Error: The customer's bank declined the transaction for an unknown reason.\nNext Steps: The customer should try again or contact their bank." @@
     "TOO_MANY_RETRIES" :> "Error: The customer's bank declined the transaction due to too many recent transactions failing to process.\nNext Steps: The customer should use an alternate card or contact their bank." @@
     "TIMED_OUT" :> "Error: The customer's bank declined the transaction because it took too long to process.\nNext Steps: Retry the transaction. If this error persists, contact Trent." @@
     "NOT_SUPPORTED" :> "Error: The customer's bank declined the transaction because the card does not support this type of transaction.\nNext Steps: The customer should use an alternate card and contact their bank." @@
     "CANCELLED" :> "Error: The customer's bank declined the transaction because the customer cancelled the transaction.\nNext Steps: The customer should try again." @@
     "BLOCKED" :> "Error: The customer's bank declined the transaction because the card does not support this type of transaction.\nNext Steps: The customer should use an alternate card and contact their bank." @@
     "SECURE_3D_AUTH_FAILED" :> "Error: The customer's bank declined the transaction because the card has security requirements that prevent it from being used for this transaction.\nNext Steps: The customer should use an alternate card and contact their bank." @@
     "OTHER" :> "Error: The customer's bank declined the transaction for an unknown reason.\nNext Steps: The customer should contact their bank for more information."

(***************************************************************************)
(* String operations of Python, on sequences of characters.                *)
(***************************************************************************)
RECURSIVE StripLeft(_, _)
StripLeft(s, c) == IF s # <<>> /\ Head(s) = c THEN StripLeft(Tail(s), c) ELSE s

RECURSIVE StripRight(_, _)
StripRight(s, c) ==
    IF s # <<>> /\ s[Len(s)] = c THEN StripRight(SubSeq(s, 1, Len(s) - 1), c) ELSE s

\* s.strip(c)
Strip(s, c) == StripRight(StripLeft(s, c), c)

\* s.replace(c, "")
RECURSIVE Remove(_, _)
Remove(s, c) ==
    IF s = <<>> THEN <<>>
    ELSE IF Head(s) = c THEN Remove(Tail(s), c)
    ELSE <<Head(s)>> \o Remove(Tail(s), c)

\* s.split(c)[0]: the text before the first c (all of s when there is none)
RECURSIVE SplitFirst(_, _)
SplitFirst(s, c) ==
    IF s = <<>> \/ Head(s) = c THEN <<>>
    ELSE <<Head(s)>> \o SplitFirst(Tail(s), c)

AllDigits(s) == \A i \in 1..Len(s) : s[i] \in DigitChars

\* s.isnumeric(): non-empty and every character a digit
IsNumeric(s) == s # <<>> /\ AllDigits(s)

\* the integer a digit string denotes (as SQL reads "acct = 00123")
RECURSIVE DigitsToInt(_)
DigitsToInt(s) ==
    IF s = <<>> THEN 0
    ELSE 10 * DigitsToInt(SubSeq(s, 1, Len(s) - 1)) + DigitVal[s[Len(s)]]

RECURSIVE Pow10(_)
Pow10(n) == IF n = 0 THEN 1 ELSE 10 * Pow10(n - 1)

\* s[::-1]
Reverse(s) == [i \in 1..Len(s) |-> s[Len(s) + 1 - i]]

RECURSIVE SumSeq(_)
SumSeq(s) == IF s = <<>> THEN 0 ELSE Head(s) + SumSeq(Tail(s))

(***************************************************************************)
(* decimal.Decimal(text): an optional sign, digits, and an optional        *)
(* fraction; any other text raises InvalidOperation.  The value is         *)
(* (-1)^neg * num / 10^scale.                                              *)
(***************************************************************************)
ParseDecimal(s) ==
    LET signed == s # <<>> /\ Head(s) \in {"-", "+"}
        body == IF signed THEN Tail(s) ELSE s
        intPart == SplitFirst(body, ".")
        hasDot == Len(intPart) < Len(body)
        fracPart == IF hasDot THEN SubSeq(body, Len(intPart) + 2, Len(body)) ELSE <<>>
    IN  [ok |-> AllDigits(intPart) /\ AllDigits(fracPart)
                /\ Len(intPart) + Len(fracPart) > 0,
         neg |-> signed /\ Head(s) = "-",
         num |-> IF AllDigits(intPart) /\ AllDigits(fracPart)
                 THEN DigitsToInt(intPart \o fracPart) ELSE 0,
         scale |-> Len(fracPart)]

\* amount = amountInput.text().strip("$"); amount = int(Decimal(amount) * 100)
\* int() truncates toward zero.
AmountCents(text) ==
    LET d == ParseDecimal(Strip(text, "$"))
        mag == (d.num * 100) \div Pow10(d.scale)
    IN  [ok |-> d.ok, cents |-> IF d.neg THEN 0 - mag ELSE mag]

(***************************************************************************)
(* Dollar amounts.  amount / 100 is a float; everything done with it       *)
(* afterwards prints it (f"{amount}" in the SQL statements and in the      *)
(* alerts), so the float is held as the text Python prints for it: the     *)
(* shortest decimal that reads back as the same float, which for a whole   *)
(* number of cents has one or two fraction digits.                         *)
(***************************************************************************)
DigitOf == [v \in 0..9 |-> CHOOSE c \in DigitChars : DigitVal[c] = v]

\* str(n) of an integer n >= 0
RECURSIVE IntToDigits(_)
IntToDigits(n) ==
    IF n < 10 THEN <<DigitOf[n]>> ELSE Append(IntToDigits(n \div 10), DigitOf[n % 10])

\* the cents handed on as if they were dollars: str(float(cents))
DollarsUnconverted(cents) ==
    LET mag == IF cents < 0 THEN 0 - cents ELSE cents
    IN  (IF cents < 0 THEN <<"-">> ELSE <<>>) \o IntToDigits(mag) \o <<".", "0">>

\* str(amount / 100)
Dollars(cents) ==
    LET mag == IF cents < 0 THEN 0 - cents ELSE cents
        tenths == (mag % 100) \div 10
        hundredths == mag % 10
    IN  (IF cents < 0 THEN <<"-">> ELSE <<>>) \o IntToDigits(mag \div 100) \o <<".">> \o
        (IF hundredths = 0 THEN <<DigitOf[tenths]>>
                           ELSE <<DigitOf[tenths], DigitOf[hundredths]>>)

\* '{text}'::numeric and float(text): does the text read as a number
IsNumber(text) == ParseDecimal(text).ok

\* the value of a decimal text, in hundredths of a dollar
Hundredths(text) ==
    LET d == ParseDecimal(text)
        mag == (d.num * 100) \div Pow10(d.scale)
    IN  IF d.neg THEN 0 - mag ELSE mag

(***************************************************************************)
(* check_card: the Luhn sum of the card number as the code computes it.    *)
(***************************************************************************)
\* [i * 2 if index % 2 == 1 else i ...] on the reversed digits, then
\* [i - 9 if i > 9 else i ...]; index is 0-based, TLA+ sequences are 1-based
LuhnDigit(index, i) ==
    LET d == IF index % 2 = 1 THEN i * 2 ELSE i
    IN  IF d > 9 THEN d - 9 ELSE d

LuhnSum(digits) ==
    LET rev == Reverse(digits)
    IN  SumSeq([k \in 1..Len(rev) |-> LuhnDigit(k - 1, DigitVal[rev[k]])])

\* a check_card without the length test
CardAcceptedAnyLength(card_number) ==
    LuhnSum(Remove(card_number, " ")) % 10 = 0

\* the condition under which check_card enables the Process Payment button
CardAccepted(card_number) ==
    LET digits == Remove(card_number, " ")
    IN  LuhnSum(digits) % 10 = 0 /\ Len(digits) = CardLength

(***************************************************************************)
(* Values entered in the form and returned by the gateway.                 *)
(***************************************************************************)
CustomerTexts == { <<>>, <<"0", "0", "0", "0", "0", " ", "-", " ">>, <<"1", "2", "3", "4", "5", " ", "-", " ", "J", " ", "S", "m", "i", "t", "h">>, <<"9", "9", "9", "9", "9">>, <<"A", "B", "C">> }
AmountTexts == { <<"$">>, <<"$", "5", "0", ".", "0", "0">>, <<"$", "1", "9", ".", "9", "9">>, <<"$", "3", "0", "0", "0">>, <<"$", "3", "0", "0", "0", ".", "0", "1">>, <<"$", "-", "5">> }
ValidCard == <<"4", "5", "3", "2", " ", "0", "1", "5", "1", " ", "1", "2", "8", "3", " ", "0", "3", "6", "6">>
CardTexts == { <<>>, ValidCard, <<"4", "5", "3", "2", " ", "0", "1", "5", "1", " ", "1", "2", "8", "3", " ", "0", "3", "6", "7">> }
\* the gateway gives every approved payment an auth code of its own
AuthCodes == <<"AUTH1", "AUTH2", "AUTH3", "AUTH4">>
\* payment statuses and decline reasons the gateway answers with
PaymentStatuses == {"APPROVED", "DECLINED", "PENDING"}
DeclineReasons == {"INSUFFICIENT_FUNDS", "NOT_IN_TABLE"}

\* the account table of the accounting database at start: acct -> balance (cents)
InitialAccounts == (12345 :> 10000)
\* the location table: account -> location key
Locations == (12345 :> 5608)

NoneText == <<"N", "o", "n", "e">>

(***************************************************************************)
(* Formatted strings: the f-string and the values it interpolates.         *)
(***************************************************************************)
Msg(fmt, account, arg) == [fmt |-> fmt, account |-> account, arg |-> arg]
NoMsg == Msg("", <<>>, "")

ExemptFmt == "Payment successful.\nReference: {authCode}"
NotFoundFmt == "Payment successful, but account {account} not found.\nReference: {authCode}"
AppliedFmt == "Payment successful and applied to account {account}.\nReference: {authCode}"
TooLargeText == "Error: This amount is too large. Please use the physical machine."
UnknownStatusFmt == "Error: The payment status is unknown ({payment.paymentStatus})"
InvalidAccountText == "The account number is invalid, please check the payment was successful in the recent transactions list."
GenericErrorText == "An error has occurred. Please check your inputs and try again.     "

\* "applied to account" in applied_payment: the phrase has spaces, so it can
\* only come from the f-string's own text (an account token has no space and
\* the auth codes of AuthCodes do not contain it)
ContainsAppliedToAccount(m) == m.fmt = AppliedFmt

Alert(fmt, account, authCode, amount, status) ==
    [fmt |-> fmt, account |-> account, authCode |-> authCode, amount |-> amount,
     status |-> status]
NotFoundAlertFmt == "Account {account} not found. Reference: {authCode} Amount: {amount}\n"
ExcessiveAlertFmt == "Payment declined due to excessive amount. Amount was: ${amount / 100}"
UnknownAlertFmt == "Payment failed. Unknown error.\n{payment.paymentStatus}"
PaymentFailedFmt == "Payment Failed: {e}"

\* a row of transactions.csv: customer, amount text, outcome, [time], auth code
\* (authCode "" when the row has no fifth field); the outcome is a literal
\* followed by an interpolated text
JournalRow(customer, amountText, outcome, authCode) ==
    [customer |-> IF customer = <<>> THEN NoneText ELSE customer,
     amount |-> amountText, outcome |-> outcome, authCode |-> authCode]

VARIABLES
    customerInput,     \* text of the customer field
    amountInput,       \* text of the amount field
    cardNumberInput,   \* text of the card number field
    processEnabled,    \* processButton.isEnabled()
    lastChecked,       \* <<>>, or <<text>>: the text the last check_card was given
    pc,                \* where the current run of process_payment stands
    runs,              \* runs of process_payment started so far
    amount,            \* process_payment's local amount (cents)
    payment,           \* the gateway's answer in the current run
    ap,                \* the locals of apply_payment
    journal,           \* U:/POS/transactions.csv
    failureLog,        \* number of lines of U:/POS/failed_payments.txt
    alerts,            \* messages delivered to the push-notification service
    gatewayCalls,      \* requests sent to simplify.Payment.create
    clipboard,         \* the clipboard ("" until something is copied)
    mboxText,          \* text of the run's message box
    db,                \* the committed content of the accounting database
    conn,              \* <<>>, or <<view>>: the open connection's transaction
    nextval,           \* the transaction_group sequence
    dbTrace,           \* database calls made by the current run
    dbAtCall,          \* the committed database when apply_payment was entered
    escaped,           \* an exception has left process_payment
    postFailures,      \* requests.post calls of the current run that raised
    inFlight,          \* frames of process_payment on the stack
    transactions,      \* the global list update_recent_transactions fills
    recentTransactionsList,  \* the items of the recent-transactions list
    refreshOutcome,    \* how the last update_recent_transactions ended
    transactionDetails,      \* <<>>, or <<row>>: the row the details window shows
    emailDialog,       \* the receipt dialog of get_email
    customerStyle,     \* the style check_account gave the customer field
    accountChecked     \* <<>>, or <<text>>: the text the last outer check_account was given

vars == <<customerInput, amountInput, cardNumberInput, processEnabled, lastChecked, pc, runs,
          amount, payment, ap, journal, failureLog, alerts, gatewayCalls,
          clipboard, mboxText, db, conn, nextval, dbTrace, dbAtCall, escaped,
          postFailures,
          inFlight, transactions, recentTransactionsList, refreshOutcome,
          transactionDetails, emailDialog, customerStyle, accountChecked>>

formVars == <<customerInput, amountInput, cardNumberInput, processEnabled, lastChecked>>
dbVars == <<db, conn, nextval, dbTrace, dbAtCall>>
viewVars == <<transactions, recentTransactionsList, refreshOutcome, transactionDetails,
              emailDialog, customerStyle, accountChecked>>

NoPayment == [paymentStatus |-> "", declineReason |-> "", authCode |-> ""]
NoAp == [account |-> <<>>, authCode |-> "", amount |-> <<>>, original_balance |-> 0,
         new_balance |-> 0, location_key |-> 0, trxid |-> 0, message |-> NoMsg]

\* the receipt dialog before get_email is called
NoEmailDialog == [state |-> "closed", email |-> "", lookup |-> ""]

Init ==
    /\ customerInput = <<>>
    /\ amountInput = <<"$">>
    /\ cardNumberInput = <<>>
    /\ processEnabled = FALSE
    /\ lastChecked = <<>>
    /\ pc = "idle"
    /\ runs = 0
    /\ amount = 0
    /\ payment = NoPayment
    /\ ap = NoAp
    /\ journal = <<>>
    /\ failureLog = 0
    /\ alerts = <<>>
    /\ gatewayCalls = <<>>
    /\ clipboard = ""
    /\ mboxText = NoMsg
    /\ db = [account |-> InitialAccounts, transactiongroup |-> <<>>,
             transaction |-> <<>>, transactiongroupnote |-> <<>>]
    /\ conn = <<>>
    /\ nextval = 1
    /\ dbTrace = <<>>
    /\ dbAtCall = db
    /\ escaped = FALSE
    /\ postFailures = 0
    /\ inFlight = 0
    /\ transactions = <<>>
    /\ recentTransactionsList = <<>>
    /\ refreshOutcome = "none"
    /\ transactionDetails = <<>>
    /\ emailDialog = NoEmailDialog
    /\ customerStyle = "unset"
    /\ accountChecked = <<>>

(***************************************************************************)
(* The accounting database as a psycopg2 connection sees it: a connection  *)
(* works on its own view of the committed database.                        *)
(***************************************************************************)
\* cur.execute of an INSERT: the row is added in the connection's transaction
Insert(view, table, row) == [view EXCEPT ![table] = Append(@, row)]

\* conn.commit(): the transaction's writes become the committed database
Committed(d, view) == view

\* a connection that commits when it is dropped
ReleasedCommits(d, view) == view

\* the connection is dropped without commit (the function's frame is released):
\* the server discards the open transaction
Released(d, view) == d

\* the database once the connection c is gone
AfterRelease(d, c) == IF c = <<>> THEN d ELSE Released(d, c[1])

(***************************************************************************)
(* The operator edits the form (only while no modal dialog is open and no  *)
(* handler is running: the interface has one thread).                      *)
(***************************************************************************)
\* typing in customerInput
EditCustomer ==
    /\ pc = "idle"
    /\ runs < MaxRuns
    /\ \E t \in CustomerTexts : customerInput' = t
    /\ UNCHANGED <<amountInput, cardNumberInput, processEnabled, lastChecked, pc, runs, amount,
                   payment, ap, journal, failureLog, alerts, gatewayCalls, clipboard,
                   mboxText, dbVars, escaped, postFailures>>
    /\ UNCHANGED <<viewVars, inFlight>>

\* typing in amountInput
EditAmount ==
    /\ pc = "idle"
    /\ runs < MaxRuns
    /\ \E t \in AmountTexts : amountInput' = t
    /\ UNCHANGED <<customerInput, cardNumberInput, processEnabled, lastChecked, pc, runs, amount,
                   payment, ap, journal, failureLog, alerts, gatewayCalls, clipboard,
                   mboxText, dbVars, escaped, postFailures>>
    /\ UNCHANGED <<viewVars, inFlight>>

\* check_card(card_number): the button is enabled iff the card is accepted
\* (the card number field's input mask admits digits and blanks only)
check_card(card_number) ==
    /\ processEnabled' = CardAccepted(card_number)
    /\ lastChecked' = <<card_number>>

\* typing in cardNumberInput moves its cursor: cursorPositionChanged calls
\* check_card(cardNumberInput.text())
EditCard ==
    /\ pc = "idle"
    /\ runs < MaxRuns
    /\ \E t \in CardTexts :
         /\ cardNumberInput' = t
         /\ check_card(t)
    /\ UNCHANGED <<customerInput, amountInput, pc, runs, amount, payment, ap, journal,
                   failureLog, alerts, gatewayCalls, clipboard, mboxText, dbVars,
                   escaped, postFailures>>
    /\ UNCHANGED <<viewVars, inFlight>>

(***************************************************************************)
(* process_payment, step by step.  A step ends where the code calls out    *)
(* (gateway, push notification, database, modal dialog): the call returns  *)
(* or raises.                                                              *)
(***************************************************************************)
\* an exception leaves process_payment: PyQt either aborts the process or
\* prints the traceback and returns to the event loop, depending on its version
AfterEscape == {"idle", "crashed"}

\* a journal row that leaves the auth code out
AppendJournalNoAuthCode(outcome, authCode) ==
    journal' = Append(journal, JournalRow(customerInput, amountInput, outcome, ""))

\* with open("U:/POS/transactions.csv", "a") ... writer.writerow([...])
AppendJournal(outcome, authCode) ==
    journal' = Append(journal, JournalRow(customerInput, amountInput, outcome, authCode))

\* the fields are reset after an approved payment; cardNumberInput.setText("")
\* calls check_card("") when it moves the cursor
ResetFields ==
    /\ customerInput' = <<>>
    /\ amountInput' = <<"$">>
    /\ cardNumberInput' = <<>>
    /\ \/ check_card(<<>>)
       \/ UNCHANGED <<processEnabled, lastChecked>>

\* a ceiling check that is off by one
ExceedsCeilingOffByOne(cents) == cents >= AmountCeiling

\* if amount > 300000
ExceedsCeiling(cents) == cents > AmountCeiling

\* processButton.clicked (the button must be enabled) or Return in cardCVCInput:
\* lines 975-980, the amount is parsed and compared with the ceiling
\* a main window that takes input while a modal dialog is open
AcceptsInputInDialog(p) == p \in {"idle", "dialog", "ceiling_dialog"}

\* lines 1003, 1279: mbox.exec_() opens the message box application-modal, so
\* the main window takes no key press or click until the box is closed, and
\* it takes none while process_payment itself is running (no event loop)
AcceptsInput(p) == p = "idle"

\* lines 1821, 1848: returnPressed of the CVC field or a click on the Process
\* button calls process_payment; at most limit runs are started
SubmitWithin(limit) ==
    /\ AcceptsInput(pc)
    /\ runs < limit
    /\ inFlight' = inFlight + 1
    /\ \E trigger \in {"button", "return"} : trigger = "button" => processEnabled
    /\ runs' = runs + 1
    /\ LET a == AmountCents(amountInput)
       IN  /\ amount' = IF a.ok THEN a.cents ELSE 0
           /\ pc' = IF ~a.ok THEN "exc"
                    ELSE IF ExceedsCeiling(a.cents) THEN "ceiling_alert"
                    ELSE "gateway"
    /\ payment' = NoPayment
    /\ postFailures' = 0
    /\ ap' = NoAp
    /\ mboxText' = NoMsg
    /\ dbTrace' = <<>>
    /\ dbAtCall' = db
    /\ UNCHANGED <<formVars, journal, failureLog, alerts, gatewayCalls, clipboard,
                   db, conn, nextval, escaped>>
    /\ UNCHANGED viewVars

Submit == SubmitWithin(MaxRuns)

\* lines 981-1002: the alert of an excessive amount; requests.post returns or raises
CeilingAlert ==
    /\ pc = "ceiling_alert"
    /\ \E delivered \in BOOLEAN :
         IF delivered
         THEN /\ UNCHANGED postFailures
              /\ alerts' = Append(alerts, Alert(ExcessiveAlertFmt, <<>>, "", Dollars(amount), ""))
              /\ mboxText' = Msg(TooLargeText, <<>>, "")
              /\ pc' = "ceiling_dialog"
         ELSE /\ pc' = "exc"
              /\ postFailures' = postFailures + 1
              /\ UNCHANGED <<alerts, mboxText>>
    /\ UNCHANGED <<formVars, runs, amount, payment, ap, journal, failureLog,
                   gatewayCalls, clipboard, dbVars, escaped>>
    /\ UNCHANGED <<viewVars, inFlight>>

\* lines 1003-1020: mbox.exec_() returns, the DECLINED row is written, return
CeilingDialogClose ==
    /\ pc = "ceiling_dialog"
    /\ AppendJournal(<<"DECLINED", "">>, "")
    /\ pc' = "idle"
    /\ inFlight' = inFlight - 1
    /\ UNCHANGED <<formVars, runs, amount, payment, ap, failureLog, alerts,
                   gatewayCalls, clipboard, mboxText, dbVars, escaped, postFailures>>
    /\ UNCHANGED viewVars

\* a status test that takes everything but a decline for an approval
IsApprovedUnlessDeclined(status) == status # "DECLINED"

\* if payment.paymentStatus == "APPROVED"
IsApproved(status) == status = "APPROVED"

\* f"DECLINED - {response_codes[payment.declineReason]}" journals the reason
\* code itself
DeclinedOutcomeCode(reason) == <<"DECLINED - ", reason>>

\* f"DECLINED - {response_codes[payment.declineReason]}"
DeclinedOutcome(reason) == <<"DECLINED - ", response_codes[reason]>>

\* lines 1022-1171 and 1172-1194: simplify.Payment.create and the branch on
\* its answer, for a gateway that answers with these statuses and reasons
GatewayAnswers(statuses, reasons) ==
    /\ pc = "gateway"
    /\ gatewayCalls' = Append(gatewayCalls,
           [call |-> "Payment.create", number |-> Remove(cardNumberInput, " "),
            amount |-> amount, customerName |-> customerInput])
    /\ \E answer \in {"payment", "BadRequestError", "ConnectionError"} :
         CASE answer = "BadRequestError" ->
                /\ mboxText' = Msg(response_codes["INVALID_CARD_NUMBER"], <<>>, "")
                /\ AppendJournal(DeclinedOutcome("INVALID_CARD_NUMBER"), "")
                /\ pc' = "badrequest_alert"
                /\ UNCHANGED <<payment, ap, dbAtCall>>
           [] answer = "ConnectionError" ->
                /\ pc' = "exc"
                /\ UNCHANGED <<payment, ap, journal, mboxText, dbAtCall>>
           [] answer = "payment" ->
                \E status \in statuses, reason \in reasons,
                   code \in {"", AuthCodes[runs]} :
                  /\ status # "DECLINED" => reason = "INSUFFICIENT_FUNDS"
                  /\ status = "APPROVED" <=> code # ""
                  /\ payment' = [paymentStatus |-> status,
                                 declineReason |-> IF status = "DECLINED" THEN reason ELSE "",
                                 authCode |-> code]
                  /\ IF IsApproved(status)
                     THEN /\ AppendJournal(<<"APPROVED", "">>, code)
                          /\ ap' = [NoAp EXCEPT !.account = SplitFirst(customerInput, " "),
                                                !.authCode = code,
                                                !.amount = Dollars(amount)]
                          /\ dbAtCall' = db
                          /\ pc' = "apply_payment"
                          /\ UNCHANGED mboxText
                     ELSE IF status = "DECLINED" /\ reason \in DOMAIN response_codes
                     THEN /\ mboxText' = Msg(response_codes[reason], <<>>, "")
                          /\ AppendJournal(DeclinedOutcome(reason), "")
                          /\ pc' = "dialog"
                          /\ UNCHANGED <<ap, dbAtCall>>
                     ELSE IF status = "DECLINED"
                     THEN /\ mboxText' = Msg(UnknownStatusFmt, <<>>, status)
                          /\ pc' = "unknown_alert"
                          /\ UNCHANGED <<ap, journal, dbAtCall>>
                     ELSE /\ mboxText' = Msg(UnknownStatusFmt, <<>>, status)
                          /\ AppendJournal(<<"unknown", "">>, "")
                          /\ pc' = "dialog"
                          /\ UNCHANGED <<ap, dbAtCall>>
    /\ UNCHANGED <<formVars, runs, amount, failureLog, alerts, clipboard, db, conn,
                   nextval, dbTrace, escaped, postFailures>>
    /\ UNCHANGED <<viewVars, inFlight>>

\* the gateway of the payment runs
GatewayCall == GatewayAnswers(PaymentStatuses, DeclineReasons)

\* lines 1128-1151: DECLINED with a reason that is not in response_codes
UnknownAlert ==
    /\ pc = "unknown_alert"
    /\ \E delivered \in BOOLEAN :
         IF delivered
         THEN /\ UNCHANGED postFailures
              /\ alerts' = Append(alerts,
                     Alert(UnknownAlertFmt, <<>>, "", <<>>, payment.paymentStatus))
              /\ AppendJournal(<<"unknown", "">>, "")
              /\ pc' = "dialog"
         ELSE /\ pc' = "exc"
              /\ postFailures' = postFailures + 1
              /\ UNCHANGED <<alerts, journal>>
    /\ UNCHANGED <<formVars, runs, amount, payment, ap, failureLog, gatewayCalls,
                   clipboard, mboxText, dbVars, escaped>>
    /\ UNCHANGED <<viewVars, inFlight>>

\* lines 1195-1212: the alert of the BadRequestError handler; an exception
\* raised inside a handler leaves process_payment
BadRequestAlert ==
    /\ pc = "badrequest_alert"
    /\ \E delivered \in BOOLEAN :
         IF delivered
         THEN /\ UNCHANGED postFailures
              /\ alerts' = Append(alerts, Alert(PaymentFailedFmt, <<>>, "", <<>>, ""))
              /\ pc' = "dialog"
              /\ UNCHANGED <<escaped, inFlight>>
         ELSE /\ pc' \in AfterEscape
              /\ inFlight' = inFlight - 1
              /\ postFailures' = postFailures + 1
              /\ escaped' = TRUE
              /\ UNCHANGED alerts
    /\ UNCHANGED <<formVars, runs, amount, payment, ap, journal, failureLog,
                   gatewayCalls, clipboard, mboxText, dbVars>>
    /\ UNCHANGED viewVars

\* lines 1247-1278: except BaseException.  The alert is posted before the
\* failure log is written; the frame of a failed apply_payment, and with it
\* its connection, is released when the handler ends
ExceptionHandler ==
    /\ pc = "exc"
    /\ mboxText' = Msg(GenericErrorText, <<>>, "")
    /\ db' = AfterRelease(db, conn)
    /\ conn' = <<>>
    /\ \E delivered \in BOOLEAN :
         IF delivered
         THEN /\ UNCHANGED postFailures
              /\ alerts' = Append(alerts, Alert(PaymentFailedFmt, <<>>, "", <<>>, ""))
              /\ failureLog' = failureLog + 1
              /\ pc' = "dialog"
              /\ UNCHANGED <<escaped, inFlight>>
         ELSE /\ pc' \in AfterEscape
              /\ inFlight' = inFlight - 1
              /\ postFailures' = postFailures + 1
              /\ escaped' = TRUE
              /\ UNCHANGED <<alerts, failureLog>>
    /\ UNCHANGED <<formVars, runs, amount, payment, ap, journal, gatewayCalls,
                   clipboard, nextval, dbTrace, dbAtCall>>
    /\ UNCHANGED viewVars

\* lines 1279-1280: mbox.exec_() returns when the operator closes the dialog
DialogClose ==
    /\ pc = "dialog"
    /\ pc' = "idle"
    /\ inFlight' = inFlight - 1
    /\ UNCHANGED <<formVars, runs, amount, payment, ap, journal, failureLog, alerts,
                   gatewayCalls, clipboard, mboxText, dbVars, escaped, postFailures>>
    /\ UNCHANGED viewVars

(***************************************************************************)
(* apply_payment(account, authCode, amount), called by process_payment     *)
(* with the leading token of the customer field, payment.authCode and      *)
(* amount / 100.  All statements run on one psycopg2 connection, which     *)
(* opens a transaction at the first statement; other sessions see its      *)
(* writes only after conn.commit().                                        *)
(***************************************************************************)
\* an apply_payment without the new-account exemption
IsSentinelNever(account) == FALSE

\* if account == "00000"
IsSentinel(account) == account = Sentinel

\* a posting that adds the payment to the balance
NewBalanceAdded(original_balance, amt) == original_balance + amt

\* new_balance = float(original_balance) - float(amount)
NewBalance(original_balance, amt) == original_balance - amt

\* the transactiongroup row: amount '-{amount}', running_balance {new_balance}
GroupRow(a, id) ==
    [transaction_group |-> id, account |-> DigitsToInt(a.account),
     reference |-> a.authCode, amount |-> Hundredths(<<"-">> \o a.amount),
     running_balance |-> a.new_balance, open |-> Hundredths(<<"-">> \o a.amount),
     location_key |-> a.location_key]

\* the transaction row: amount '{amount}', balance {new_balance}
TransactionRow(a) ==
    [transaction_group |-> a.trxid, account |-> DigitsToInt(a.account),
     reference |-> a.authCode, amount |-> Hundredths(a.amount), balance |-> a.new_balance,
     location_key |-> a.location_key]

\* the transactiongroupnote row
NoteRow(a) == [transaction_group |-> a.trxid, note |-> "Payment applied by {user} on {computer}"]

\* an alert that leaves the auth code out
NotFoundAlertNoReference(a) == Alert(NotFoundAlertFmt, a.account, "", a.amount, "")

\* the alert of an account that was not found or a posting that failed
NotFoundAlert(a) == Alert(NotFoundAlertFmt, a.account, a.authCode, a.amount, "")

\* the transaction the next statement of apply_payment runs in
View == conn[1]

Traced(call) == dbTrace' = Append(dbTrace, call)

\* lines 840-844: the sentinel returns before anything else is done
ApEnter ==
    /\ pc = "apply_payment"
    /\ IF IsSentinel(ap.account)
       THEN /\ ap' = [ap EXCEPT !.message = Msg(ExemptFmt, <<>>, ap.authCode)]
            /\ pc' = "ap_return"
       ELSE /\ pc' = "ap_connect"
            /\ UNCHANGED ap
    /\ UNCHANGED <<formVars, runs, amount, payment, journal, failureLog, alerts,
                   gatewayCalls, clipboard, mboxText, dbVars, escaped, postFailures>>
    /\ UNCHANGED <<viewVars, inFlight>>

\* lines 848-866: psycopg2.connect; a non-numeric account is not looked up
ApConnect ==
    /\ pc = "ap_connect"
    /\ Traced("connect")
    /\ \E ok \in BOOLEAN :
         IF ok
         THEN /\ conn' = <<db>>
              /\ pc' = IF IsNumeric(ap.account) THEN "ap_select_account" ELSE "ap_not_found"
         ELSE /\ pc' = "ap_exc"
              /\ UNCHANGED conn
    /\ UNCHANGED <<formVars, runs, amount, payment, ap, journal, failureLog, alerts,
                   gatewayCalls, clipboard, mboxText, db, nextval, dbAtCall, escaped, postFailures>>
    /\ UNCHANGED <<viewVars, inFlight>>

\* lines 862-863 and 881-883: SELECT * FROM account WHERE acct = {account};
\* row[10] is the balance (IndexError when the row is shorter)
ApSelectAccount ==
    /\ pc = "ap_select_account"
    /\ Traced("SELECT account")
    /\ \E outcome \in {"row", "IndexError", "Error"} :
         LET acct == DigitsToInt(ap.account) IN
         IF outcome = "Error" THEN pc' = "ap_exc" /\ UNCHANGED ap
         ELSE IF acct \notin DOMAIN View.account
         THEN outcome = "row" /\ pc' = "ap_not_found" /\ UNCHANGED ap
         ELSE IF outcome = "IndexError" THEN pc' = "ap_index_error" /\ UNCHANGED ap
         ELSE /\ ap' = [ap EXCEPT !.original_balance = View.account[acct],
                                  !.new_balance = NewBalance(View.account[acct],
                                                            Hundredths(ap.amount))]
              /\ pc' = "ap_location"
    /\ UNCHANGED <<formVars, runs, amount, payment, journal, failureLog, alerts,
                   gatewayCalls, clipboard, mboxText, db, conn, nextval, dbAtCall,
                   escaped, postFailures>>
    /\ UNCHANGED <<viewVars, inFlight>>

\* lines 867-878: row is None
ApNotFound ==
    /\ pc = "ap_not_found"
    /\ \E delivered \in BOOLEAN :
         IF delivered
         THEN /\ UNCHANGED postFailures
              /\ alerts' = Append(alerts, NotFoundAlert(ap))
              /\ ap' = [ap EXCEPT !.message = Msg(NotFoundFmt, ap.account, ap.authCode)]
              /\ pc' = "ap_return"
         ELSE /\ pc' = "ap_exc"
              /\ postFailures' = postFailures + 1
              /\ UNCHANGED <<alerts, ap>>
    /\ UNCHANGED <<formVars, runs, amount, payment, journal, failureLog, gatewayCalls,
                   clipboard, mboxText, dbVars, escaped>>
    /\ UNCHANGED <<viewVars, inFlight>>

\* lines 887-888: SELECT * FROM location WHERE account = {row[0]}
ApLocation ==
    /\ pc = "ap_location"
    /\ Traced("SELECT location")
    /\ \E ok \in BOOLEAN :
         LET acct == DigitsToInt(ap.account) IN
         IF ok /\ acct \in DOMAIN Locations
         THEN /\ ap' = [ap EXCEPT !.location_key = Locations[acct]]
              /\ pc' = "ap_insert_group"
         ELSE /\ pc' = "ap_exc"
              /\ UNCHANGED ap
    /\ UNCHANGED <<formVars, runs, amount, payment, journal, failureLog, alerts,
                   gatewayCalls, clipboard, mboxText, db, conn, nextval, dbAtCall,
                   escaped, postFailures>>
    /\ UNCHANGED <<viewVars, inFlight>>

\* lines 889-897: INSERT INTO transactiongroup ... returning transaction_group.
\* '-{amount}'::numeric is no number when amount is negative ('--5.0')
ApInsertGroup ==
    /\ pc = "ap_insert_group"
    /\ Traced("INSERT transactiongroup")
    /\ \E ok \in BOOLEAN :
         IF ok /\ IsNumber(<<"-">> \o ap.amount)
         THEN /\ conn' = <<Insert(View, "transactiongroup", GroupRow(ap, nextval))>>
              /\ ap' = [ap EXCEPT !.trxid = nextval]
              /\ nextval' = nextval + 1
              /\ pc' = "ap_insert_transaction"
         ELSE /\ pc' = "ap_exc"
              /\ UNCHANGED <<conn, ap, nextval>>
    /\ UNCHANGED <<formVars, runs, amount, payment, journal, failureLog, alerts,
                   gatewayCalls, clipboard, mboxText, db, dbAtCall, escaped, postFailures>>
    /\ UNCHANGED <<viewVars, inFlight>>

\* lines 898-905: INSERT INTO transaction
ApInsertTransaction ==
    /\ pc = "ap_insert_transaction"
    /\ Traced("INSERT transaction")
    /\ \E ok \in BOOLEAN :
         IF ok
         THEN /\ conn' = <<Insert(View, "transaction", TransactionRow(ap))>>
              /\ pc' = "ap_update_balance"
         ELSE /\ pc' = "ap_exc"
              /\ UNCHANGED conn
    /\ UNCHANGED <<formVars, runs, amount, payment, ap, journal, failureLog, alerts,
                   gatewayCalls, clipboard, mboxText, db, nextval, dbAtCall, escaped, postFailures>>
    /\ UNCHANGED <<viewVars, inFlight>>

\* lines 907-909: UPDATE account SET balance = {new_balance} WHERE acct = {account}
ApUpdateBalance ==
    /\ pc = "ap_update_balance"
    /\ Traced("UPDATE account")
    /\ \E ok \in BOOLEAN :
         IF ok
         THEN /\ conn' = <<[View EXCEPT !.account[DigitsToInt(ap.account)] = ap.new_balance]>>
              /\ pc' = "ap_insert_note"
         ELSE /\ pc' = "ap_exc"
              /\ UNCHANGED conn
    /\ UNCHANGED <<formVars, runs, amount, payment, ap, journal, failureLog, alerts,
                   gatewayCalls, clipboard, mboxText, db, nextval, dbAtCall, escaped, postFailures>>
    /\ UNCHANGED <<viewVars, inFlight>>

\* lines 911-917: INSERT INTO transactiongroupnote
ApInsertNote ==
    /\ pc = "ap_insert_note"
    /\ Traced("INSERT transactiongroupnote")
    /\ \E ok \in BOOLEAN :
         IF ok
         THEN /\ conn' = <<Insert(View, "transactiongroupnote", NoteRow(ap))>>
              /\ pc' = "ap_commit"
         ELSE /\ pc' = "ap_exc"
              /\ UNCHANGED conn
    /\ UNCHANGED <<formVars, runs, amount, payment, ap, journal, failureLog, alerts,
                   gatewayCalls, clipboard, mboxText, db, nextval, dbAtCall, escaped, postFailures>>
    /\ UNCHANGED <<viewVars, inFlight>>

\* lines 918-919: conn.commit() and the message of an applied payment
ApCommit ==
    /\ pc = "ap_commit"
    /\ Traced("commit")
    /\ \E ok \in BOOLEAN :
         IF ok
         THEN /\ db' = Committed(db, View)
              /\ ap' = [ap EXCEPT !.message = Msg(AppliedFmt, ap.account, ap.authCode)]
              /\ pc' = "ap_return"
         ELSE /\ pc' = "ap_exc"
              /\ UNCHANGED <<db, ap>>
    /\ UNCHANGED <<formVars, runs, amount, payment, journal, failureLog, alerts,
                   gatewayCalls, clipboard, mboxText, conn, nextval, dbAtCall, escaped, postFailures>>
    /\ UNCHANGED <<viewVars, inFlight>>

\* lines 929-948: except IndexError; an exception raised in this handler is
\* caught by the outer except BaseException
ApIndexError ==
    /\ pc = "ap_index_error"
    /\ failureLog' = failureLog + 1
    /\ \E delivered \in BOOLEAN :
         IF delivered
         THEN /\ UNCHANGED postFailures
              /\ alerts' = Append(alerts, NotFoundAlert(ap))
              /\ ap' = [ap EXCEPT !.message = Msg(NotFoundFmt, ap.account, ap.authCode)]
              /\ pc' = "ap_return"
         ELSE /\ pc' = "ap_exc"
              /\ postFailures' = postFailures + 1
              /\ UNCHANGED <<alerts, ap>>
    /\ UNCHANGED <<formVars, runs, amount, payment, journal, gatewayCalls, clipboard,
                   mboxText, dbVars, escaped>>
    /\ UNCHANGED <<viewVars, inFlight>>

\* lines 949-968: except BaseException; an exception raised in this handler
\* leaves apply_payment and is caught by process_payment's except BaseException
ApException ==
    /\ pc = "ap_exc"
    /\ failureLog' = failureLog + 1
    /\ \E delivered \in BOOLEAN :
         IF delivered
         THEN /\ UNCHANGED postFailures
              /\ alerts' = Append(alerts, NotFoundAlert(ap))
              /\ ap' = [ap EXCEPT !.message = Msg(NotFoundFmt, ap.account, ap.authCode)]
              /\ pc' = "ap_return"
         ELSE /\ pc' = "exc"
              /\ postFailures' = postFailures + 1
              /\ UNCHANGED <<alerts, ap>>
    /\ UNCHANGED <<formVars, runs, amount, payment, journal, gatewayCalls, clipboard,
                   mboxText, dbVars, escaped>>
    /\ UNCHANGED <<viewVars, inFlight>>

\* if "applied to account" not in applied_payment: pyperclip.copy(payment.authCode)
CopiesAuthCode(message) == ~ContainsAppliedToAccount(message)

\* apply_payment returns its message: its frame, and with it the connection,
\* is released; lines 1074-1097 of process_payment
ApReturn ==
    /\ pc = "ap_return"
    /\ db' = AfterRelease(db, conn)
    /\ conn' = <<>>
    /\ clipboard' = IF CopiesAuthCode(ap.message) THEN payment.authCode ELSE clipboard
    /\ mboxText' = ap.message
    /\ ResetFields
    /\ pc' = "dialog"
    /\ UNCHANGED <<runs, amount, payment, ap, journal, failureLog, alerts,
                   gatewayCalls, nextval, dbTrace, dbAtCall, escaped, postFailures>>
    /\ UNCHANGED <<viewVars, inFlight>>

Next ==
    \/ EditCustomer \/ EditAmount \/ EditCard
    \/ Submit \/ CeilingAlert \/ CeilingDialogClose \/ GatewayCall \/ UnknownAlert
    \/ BadRequestAlert \/ ExceptionHandler \/ DialogClose
    \/ ApEnter \/ ApConnect \/ ApSelectAccount \/ ApNotFound \/ ApLocation
    \/ ApInsertGroup \/ ApInsertTransaction \/ ApUpdateBalance \/ ApInsertNote
    \/ ApCommit \/ ApIndexError \/ ApException \/ ApReturn

Spec == Init /\ [][Next]_vars

(***************************************************************************)
(* check_card alone, on card numbers of many lengths: a prefix of the test *)
(* number 4532015112830366 followed by up to MaxTail free digits.          *)
(***************************************************************************)
RECURSIVE DigitStrings(_)
DigitStrings(n) ==
    IF n = 0 THEN {<<>>}
    ELSE LET shorter == DigitStrings(n - 1)
         IN  shorter \cup {Append(s, c) : s \in {t \in shorter : Len(t) = n - 1},
                                          c \in DigitChars}

CardPrefixes == { <<>>, <<"4", "5", "3", "2", "0", "1", "5", "1", "1", "2", "8", "3", "0", "3">>,
                  <<"4", "5", "3", "2", "0", "1", "5", "1", "1", "2", "8", "3", "0", "3", "6">> }
CardSamples == {p \o t : p \in CardPrefixes, t \in DigitStrings(MaxTail)}

\* a card number is in the field, check_card has not run on it yet
InitCard ==
    /\ cardNumberInput \in CardSamples
    /\ customerInput = <<>>
    /\ amountInput = <<"$">>
    /\ processEnabled = FALSE
    /\ lastChecked = <<>>
    /\ pc = "idle"
    /\ runs = 0
    /\ amount = 0
    /\ payment = NoPayment
    /\ ap = NoAp
    /\ journal = <<>>
    /\ failureLog = 0
    /\ alerts = <<>>
    /\ gatewayCalls = <<>>
    /\ clipboard = ""
    /\ mboxText = NoMsg
    /\ db = [account |-> InitialAccounts, transactiongroup |-> <<>>,
             transaction |-> <<>>, transactiongroupnote |-> <<>>]
    /\ conn = <<>>
    /\ nextval = 1
    /\ dbTrace = <<>>
    /\ dbAtCall = db
    /\ escaped = FALSE
    /\ postFailures = 0
    /\ inFlight = 0
    /\ transactions = <<>>
    /\ recentTransactionsList = <<>>
    /\ refreshOutcome = "none"
    /\ transactionDetails = <<>>
    /\ emailDialog = NoEmailDialog
    /\ customerStyle = "unset"
    /\ accountChecked = <<>>

\* cursorPositionChanged: check_card(cardNumberInput.text())
CheckCardSample ==
    /\ lastChecked = <<>>
    /\ check_card(cardNumberInput)
    /\ UNCHANGED <<cardNumberInput, customerInput, amountInput, pc, runs, amount, payment, ap, journal,
                   failureLog, alerts, gatewayCalls, clipboard, mboxText, dbVars,
                   escaped, postFailures>>
    /\ UNCHANGED <<viewVars, inFlight>>

SpecCard == InitCard /\ [][CheckCardSample]_vars

(***************************************************************************)
(* The declined branch alone: the gateway answers DECLINED with each key   *)
(* of response_codes or with a reason the table does not have.             *)
(***************************************************************************)
AllDeclineReasons == DOMAIN response_codes \cup {"NOT_IN_TABLE"}

\* the keys of response_codes whose text has a "\nNext Steps: " part
WithNextSteps == DOMAIN response_codes \ {"APPROVED"}

GatewayDeclines == GatewayAnswers({"DECLINED"}, AllDeclineReasons)

NextDecline ==
    \/ EditCustomer \/ EditAmount
    \/ Submit \/ CeilingAlert \/ CeilingDialogClose \/ GatewayDeclines \/ UnknownAlert
    \/ BadRequestAlert \/ ExceptionHandler \/ DialogClose

SpecDecline == Init /\ [][NextDecline]_vars

(***************************************************************************)
(* Properties.                                                             *)
(***************************************************************************)
Last(s) == s[Len(s)]

\* the positions of a run of process_payment inside apply_payment
ApPcs == {"apply_payment", "ap_connect", "ap_select_account", "ap_not_found",
          "ap_location", "ap_insert_group", "ap_insert_transaction",
          "ap_update_balance", "ap_insert_note", "ap_commit", "ap_index_error",
          "ap_exc", "ap_return"}

\* the run of process_payment is over (its last dialog is open or closed)
RunOver == runs > 0 /\ pc \in {"dialog", "idle", "crashed"}

\* apply_payment reported a committed posting
Applied == ap.message.fmt = AppliedFmt

\* the committed database holds exactly one posting more than before the call
OnePostingAdded ==
    /\ Len(db.transactiongroup) = Len(dbAtCall.transactiongroup) + 1
    /\ Len(db.transaction) = Len(dbAtCall.transaction) + 1
    /\ Len(db.transactiongroupnote) = Len(dbAtCall.transactiongroupnote) + 1
    /\ SubSeq(db.transactiongroup, 1, Len(dbAtCall.transactiongroup)) = dbAtCall.transactiongroup
    /\ SubSeq(db.transaction, 1, Len(dbAtCall.transaction)) = dbAtCall.transaction
    /\ SubSeq(db.transactiongroupnote, 1, Len(dbAtCall.transactiongroupnote))
         = dbAtCall.transactiongroupnote

\* C1: ledger posting is atomic.  Whenever apply_payment has not reported a
\* commit (a step failed, or the posting is still under way), the committed
\* database is the one found when apply_payment was entered: no group row, no
\* transaction row, no note row and no balance change of this attempt is
\* visible, also after the connection is gone; and a change of the committed
\* database is always the whole posting (all three rows and the balance).
C1_PostingAtomic ==
    /\ ~Applied => db = dbAtCall
    /\ db # dbAtCall =>
         /\ OnePostingAdded
         /\ db.account[DigitsToInt(ap.account)] = ap.new_balance

\* C1 witness: the balance update failed after both inserts had been executed,
\* apply_payment has returned and nothing of the attempt is in the database
C1_Witness ==
    /\ pc = "dialog"
    /\ dbTrace # <<>> /\ Last(dbTrace) = "UPDATE account"
    /\ ap.trxid > 0
    /\ conn = <<>>
    /\ db = dbAtCall

\* C2: the amount ceiling is exact.  No request with more than 300000 cents
\* reaches the gateway, a run with more than 300000 cents never stands at the
\* gateway call, and a run with exactly 300000 cents makes the gateway call
\* with that amount.
C2_CeilingExact ==
    /\ \A i \in 1..Len(gatewayCalls) : gatewayCalls[i].amount <= 300000
    /\ (runs > 0 /\ amount >= 300001) => pc # "gateway"
    /\ (runs > 0 /\ amount = 300000 /\ pc # "gateway") =>
         (gatewayCalls # <<>> /\ Last(gatewayCalls).amount = 300000)

\* C2 witness: a run with 300001 cents has ended and the gateway was not called
C2_Witness ==
    /\ RunOver /\ pc = "idle"
    /\ amount = 300001
    /\ gatewayCalls = <<>>

\* C3: for the sentinel account apply_payment makes no database call (no
\* connect, no query), never leaves the success path, and returns the success
\* message carrying the auth code it was given.
C3_SentinelNoDatabase ==
    ap.account = Sentinel =>
      /\ pc \in {"apply_payment", "ap_return", "dialog", "idle"}
      /\ dbTrace = <<>> /\ conn = <<>> /\ db = dbAtCall
      /\ pc # "apply_payment" =>
           /\ ap.message = Msg(ExemptFmt, <<>>, ap.authCode)
           /\ ap.authCode = payment.authCode /\ ap.authCode # ""

\* C3 witness: the operator is shown the success message of a sentinel payment
C3_Witness ==
    /\ pc = "dialog"
    /\ ap.account = Sentinel
    /\ mboxText = Msg(ExemptFmt, <<>>, payment.authCode)

\* C4 (as claimed): when a run of process_payment is over, the journal holds
\* exactly one row per run started (stated on the runs that end with their
\* dialog, no exception having left process_payment).
C4_OneJournalRowPerRun ==
    (RunOver /\ ~escaped) => Len(journal) = runs

\* C5: apply_payment is entered only in a run whose gateway answer is
\* APPROVED; in any other run no database call is made and the committed
\* database is unchanged.
C5_PostingOnlyAfterApproval ==
    /\ (pc \in ApPcs \/ ap # NoAp \/ dbTrace # <<>> \/ conn # <<>>) =>
         payment.paymentStatus = "APPROVED"
    /\ (runs > 0 /\ payment.paymentStatus # "APPROVED") =>
         (dbTrace = <<>> /\ db = dbAtCall)

\* C5 witness: a declined payment's dialog, with no database call made
C5_Witness ==
    /\ pc = "dialog"
    /\ payment.paymentStatus = "DECLINED"
    /\ Len(gatewayCalls) = runs
    /\ dbTrace = <<>>

\* C6: when apply_payment reports a committed posting, the database holds
\* exactly one group row, one transaction row and one note row more than
\* before, all other rows and accounts are as before, and the account's
\* balance is the balance read before the posting minus the payment amount.
C6_SuccessfulPosting ==
    Applied =>
      LET acct == DigitsToInt(ap.account) IN
      /\ OnePostingAdded
      /\ acct \in DOMAIN dbAtCall.account
      /\ ap.original_balance = dbAtCall.account[acct]
      /\ db.account = [dbAtCall.account EXCEPT ![acct] = dbAtCall.account[acct] - amount]
      /\ Last(db.transactiongroup).reference = ap.authCode
      /\ Last(db.transaction).reference = ap.authCode

\* C6 witness: balance 100.00, payment 50.00, new balance 50.00
C6_Witness ==
    /\ pc = "dialog"
    /\ Applied
    /\ dbAtCall.account[12345] = 10000
    /\ amount = 5000
    /\ ap.amount = <<"5", "0", ".", "0">>
    /\ db.account[12345] = 5000

\* C7 (as claimed): after an approved payment the clipboard holds the auth
\* code if and only if the payment was not applied to an account.
C7_ClipboardIffNotApplied ==
    (RunOver /\ payment.paymentStatus = "APPROVED") =>
      (clipboard = payment.authCode <=> ~Applied)

\* C8 (as claimed): when the numeric account that apply_payment looks up is
\* not in the account table, the operator is told that the payment succeeded
\* but the account was not found, with the auth code, and nothing is written
\* to the database.
C8_AccountNotFoundReported ==
    (RunOver /\ payment.paymentStatus = "APPROVED" /\ IsNumeric(ap.account)
       /\ ap.account # Sentinel /\ DigitsToInt(ap.account) \notin DOMAIN dbAtCall.account
       /\ dbTrace # <<>> /\ Last(dbTrace) = "SELECT account") =>
      /\ mboxText = Msg(NotFoundFmt, ap.account, payment.authCode)
      /\ db = dbAtCall

\* C9: when apply_payment returns the outcome of an account not found or of a
\* failed posting, the alert with this call's account, auth code and amount
\* has been delivered; and the only calls ever made to the gateway are the
\* payment requests, one per run at most (nothing is reversed).
C9_AlertBeforeReturn ==
    /\ (pc = "ap_return" /\ ap.message.fmt = NotFoundFmt) =>
         /\ alerts # <<>>
         /\ Last(alerts).fmt = NotFoundAlertFmt
         /\ Last(alerts).account = ap.account
         /\ Last(alerts).authCode = payment.authCode
         /\ Hundredths(Last(alerts).amount) = amount
    /\ Len(gatewayCalls) <= runs
    /\ \A i \in 1..Len(gatewayCalls) : gatewayCalls[i].call = "Payment.create"

\* C9 witness: a posting failed at the balance update and apply_payment is
\* about to return the outcome, the alert delivered
C9_Witness ==
    /\ pc = "ap_return"
    /\ ap.message.fmt = NotFoundFmt
    /\ dbTrace # <<>> /\ Last(dbTrace) = "UPDATE account"
    /\ alerts # <<>>

\* the Luhn sum as the specification words it, on the digits counted from
\* the right: every second digit from the right is doubled, 9 is subtracted
\* from a doubled value above 9, and all are added
RECURSIVE LuhnFromRight(_, _)
LuhnFromRight(digits, fromRight) ==
    IF digits = <<>> THEN 0
    ELSE LET d == DigitVal[Last(digits)]
             v == IF fromRight % 2 = 1 THEN d
                  ELSE IF 2 * d > 9 THEN 2 * d - 9 ELSE 2 * d
         IN  v + LuhnFromRight(SubSeq(digits, 1, Len(digits) - 1), fromRight + 1)

\* C10: once check_card has run on the digit string in the card field, the
\* button is enabled iff the string has exactly 16 digits and its Luhn sum is
\* 0 modulo 10; a digit string of any other length leaves it disabled whatever
\* its digits.
C10_CardValidation ==
    (lastChecked = <<cardNumberInput>> /\ AllDigits(cardNumberInput)) =>
      /\ Len(cardNumberInput) = 16 =>
           (processEnabled <=> LuhnFromRight(cardNumberInput, 1) % 10 = 0)
      /\ Len(cardNumberInput) # 16 => ~processEnabled

\* C10 witness: the test number 4532015112830366 is accepted
C10_Witness ==
    /\ lastChecked = <<cardNumberInput>>
    /\ cardNumberInput = <<"4", "5", "3", "2", "0", "1", "5", "1", "1", "2", "8", "3", "0", "3", "6", "6">>
    /\ Len(cardNumberInput) = 16
    /\ processEnabled

\* C11 (as stated): a declined payment always ends with a message for the
\* operator that has a next step, and no exception leaves process_payment:
\* the entry of response_codes when the decline reason is a key of the table,
\* the unknown-status message otherwise.
HasNextStep(m) == \E c \in WithNextSteps : m.fmt = response_codes[c]

C11_ClassificationTotal ==
    (RunOver /\ payment.paymentStatus = "DECLINED") =>
        /\ ~escaped
        /\ mboxText # NoMsg
        /\ HasNextStep(mboxText)
        /\ payment.declineReason \in DOMAIN response_codes =>
               mboxText = Msg(response_codes[payment.declineReason], <<>>, "")
        /\ payment.declineReason \notin DOMAIN response_codes =>
               mboxText = Msg(UnknownStatusFmt, <<>>, "DECLINED")

\* the run is over and the gateway declined it with a reason of the table
KnownDeclineOver ==
    /\ RunOver
    /\ payment.paymentStatus = "DECLINED"
    /\ payment.declineReason \in DOMAIN response_codes

\* C12 (as stated): after a decline with a reason of the table, the outcome
\* of the journal row of the attempt is the explanation string of the reason,
\* and nothing else.
C12_OutcomeIsExplanation ==
    KnownDeclineOver =>
        /\ Len(journal) > 0
        /\ Last(journal).outcome = <<"", response_codes[payment.declineReason]>>

\* C12 (amended): after a decline with a reason of the table, the outcome of
\* the journal row of the attempt is "DECLINED - " followed by the explanation
\* string of the reason.
C12_OutcomeIsPrefixedExplanation ==
    KnownDeclineOver =>
        /\ Len(journal) > 0
        /\ Last(journal).outcome[1] = "DECLINED - "
        /\ Last(journal).outcome[2] = response_codes[payment.declineReason]
        /\ payment.declineReason = "INSUFFICIENT_FUNDS" =>
               Last(journal).outcome[2] =
                   "Error: The customer's bank declined the transaction due to insufficient funds in their account\nNext Steps: The customer should use an alternate card or transfer some funds."

\* a payment of account 12345 was declined for insufficient funds and its
\* dialog is open
C12_Witness ==
    /\ pc = "dialog"
    /\ payment.paymentStatus = "DECLINED"
    /\ payment.declineReason = "INSUFFICIENT_FUNDS"
    /\ SplitFirst(customerInput, " ") = <<"1", "2", "3", "4", "5">>
    /\ Len(journal) = runs

\* the run is over and the gateway answered with something the code does not
\* know: a decline reason outside the table, or a status other than APPROVED
\* and DECLINED
UnknownAnswerOver ==
    /\ RunOver
    /\ \/ payment.paymentStatus = "DECLINED" /\
          payment.declineReason \notin DOMAIN response_codes
       \/ payment.paymentStatus \notin {"", "APPROVED", "DECLINED"}

\* C13 (as stated): after an answer the code does not know, the journal row
\* of the attempt has outcome "unknown" and an alert with the raw status has
\* been sent, whichever of the two cases it was.
C13_UnknownJournaledAndAlerted ==
    UnknownAnswerOver =>
        /\ Len(journal) > 0
        /\ Last(journal).outcome = <<"unknown", "">>
        /\ \E i \in DOMAIN alerts :
              /\ alerts[i].fmt = UnknownAlertFmt
              /\ alerts[i].status = payment.paymentStatus

\* process_payment has been left (by return or by an exception)
RunEnded == runs > 0 /\ pc \in {"idle", "crashed"}

\* C14 (as stated): a run whose amount exceeds the ceiling ends with no call
\* to the gateway for it, a journal row with outcome DECLINED, the alert of
\* an excessive amount sent and the operator told to use the physical
\* machine; the row is there also when the alert could not be sent.
C14_CeilingRejected ==
    (RunEnded /\ amount > AmountCeiling) =>
        /\ \A i \in DOMAIN gatewayCalls : gatewayCalls[i].amount # amount
        /\ Len(journal) > 0
        /\ Last(journal).outcome = <<"DECLINED", "">>
        /\ postFailures = 0 =>
              /\ \E i \in DOMAIN alerts : alerts[i] = Alert(ExcessiveAlertFmt, <<>>, "", Dollars(amount), "")
              /\ mboxText = Msg(TooLargeText, <<>>, "")

\* C15 (as stated): no exception leaves process_payment and the program
\* keeps running; every run that is over has shown the operator a message.
C15_NoFaultEscapes ==
    /\ ~escaped
    /\ pc # "crashed"
    /\ RunOver => mboxText # NoMsg

\* C16 (as stated): once a push-notification POST of the run has raised, no
\* exception has left apply_payment or process_payment because of it, the
\* alert of the run's payment is not sent by a later attempt, and the run
\* does not end with the generic error message.
C16_AlertFailureSilent ==
    postFailures > 0 =>
        /\ ~escaped
        /\ pc \notin {"exc", "crashed"}
        /\ payment.authCode # "" =>
               \A i \in DOMAIN alerts : alerts[i].authCode # payment.authCode
        /\ RunOver => mboxText # Msg(GenericErrorText, <<>>, "")

\* C17 (as stated): a connection, and with it an open transaction, exists
\* only while apply_payment is running its statements: when apply_payment
\* is at its return statement, and whenever it is not running, the
\* connection has been closed.
C17_ConnectionReleased ==
    pc \notin (ApPcs \ {"ap_return"}) => conn = <<>>

\* C18 (as stated): once a posting is committed, its transactiongroup row
\* and its transaction row have the same transaction_group, both have the
\* negative of the payment amount as their amount, and both have the new
\* balance.
C18_RowsCarryNegativeAmount ==
    Applied =>
        LET group == Last(db.transactiongroup)
            detail == Last(db.transaction)
        IN  /\ group.transaction_group = detail.transaction_group
            /\ group.amount = 0 - amount
            /\ detail.amount = 0 - amount
            /\ group.running_balance = ap.new_balance
            /\ detail.balance = ap.new_balance

\* apply_payment found the account, went on to the posting and has returned
\* (or is about to return) a message that is not the applied one
PostingFailedReturned ==
    /\ \E i \in DOMAIN dbTrace : dbTrace[i] = "SELECT location"
    /\ ap.message # NoMsg
    /\ ~Applied

\* C19 (as stated): when the account exists and a step of the posting fails,
\* the message apply_payment returns and the alert it sends are not the ones
\* of an account that was not found.
C19_PostingFailedDistinct ==
    PostingFailedReturned =>
        /\ ap.message.fmt # NotFoundFmt
        /\ \A i \in DOMAIN alerts :
              alerts[i].authCode = ap.authCode => alerts[i].fmt # NotFoundAlertFmt

\* C20 (as stated): when apply_payment was called with an account that is
\* neither the sentinel nor numeric, the run ends with no account query made,
\* nothing written to the database and the account-not-found message shown.
C20_NonNumericAccountNotFound ==
    (RunOver /\ payment.paymentStatus = "APPROVED" /\ ap.account # Sentinel
       /\ ~IsNumeric(ap.account)) =>
      /\ \A i \in DOMAIN dbTrace : dbTrace[i] = "connect"
      /\ db = dbAtCall
      /\ mboxText = Msg(NotFoundFmt, ap.account, payment.authCode)

\* C21 (as stated): every card number sent to the gateway is one that
\* check_card accepts, whichever way the run was started.
C21_GatewayOnlyValidCards ==
    \A i \in DOMAIN gatewayCalls : CardAccepted(gatewayCalls[i].number)

\* C22 (as stated): every amount sent to the gateway is a number of cents
\* between 0 and 300000.
C22_GatewayAmountInRange ==
    \A i \in DOMAIN gatewayCalls :
        /\ 0 <= gatewayCalls[i].amount
        /\ gatewayCalls[i].amount <= AmountCeiling

\* apply_payment has been called in the current run
PostingCalled == payment.paymentStatus = "APPROVED" /\ ap.authCode # ""

\* C23: in every run with an approved payment, one hundred times the dollar
\* amount passed to apply_payment is the number of cents that was sent to the
\* gateway in that run, and the rows of a committed posting carry that sum.
C23_ConvertedOnce ==
    PostingCalled =>
        /\ gatewayCalls # <<>>
        /\ IsNumber(ap.amount)
        /\ Hundredths(ap.amount) = Last(gatewayCalls).amount
        /\ Applied =>
              /\ Last(db.transaction).amount = Last(gatewayCalls).amount
              /\ Last(db.transactiongroup).amount = 0 - Last(gatewayCalls).amount
              /\ ap.original_balance - ap.new_balance = Last(gatewayCalls).amount

\* C23 witness: 1999 cents were charged and 19.99 dollars were posted
C23_Witness ==
    /\ Applied
    /\ Last(gatewayCalls).amount = 1999
    /\ ap.amount = <<"1", "9", ".", "9", "9">>
    /\ Last(db.transaction).amount = 1999
    /\ db.account[12345] = 8001

\* the run is over and the gateway rejected its request as a bad request
\* (the INVALID_CARD_NUMBER text is set for a payment object that never
\* came back)
BadRequestOver ==
    /\ RunOver
    /\ payment = NoPayment
    /\ mboxText = Msg(response_codes["INVALID_CARD_NUMBER"], <<>>, "")

\* C24 (as stated): after a bad request the operator is shown the
\* INVALID_CARD_NUMBER explanation (no exception leaves process_payment
\* before its dialog), the journal row of the attempt is the decline with
\* that explanation, and the database was not touched.
C24_BadRequestKnownDecline ==
    BadRequestOver =>
        /\ ~escaped
        /\ pc # "crashed"
        /\ Len(journal) > 0
        /\ Last(journal).outcome = DeclinedOutcome("INVALID_CARD_NUMBER")
        /\ dbTrace = <<>>
        /\ db = dbAtCall

\* the journal has an APPROVED row with this auth code
Journaled(authCode) ==
    \E j \in DOMAIN journal :
        /\ journal[j].outcome = <<"APPROVED", "">>
        /\ journal[j].authCode = authCode

\* C27: every transactiongroup row, committed or still in the open
\* transaction, has an APPROVED journal row with its reference as auth code;
\* and from the call of apply_payment on, whatever becomes of the posting,
\* the journal has the APPROVED row of the run's payment.
C27_JournalBeforeLedger ==
    /\ \A i \in DOMAIN db.transactiongroup : Journaled(db.transactiongroup[i].reference)
    /\ conn # <<>> =>
          \A i \in DOMAIN View.transactiongroup : Journaled(View.transactiongroup[i].reference)
    /\ PostingCalled => Journaled(payment.authCode)

\* C27 witness: the posting of an approved payment failed after its rows
\* were inserted, nothing is committed, and the journal has the payment
C27_Witness ==
    /\ pc = "dialog"
    /\ PostingCalled
    /\ \E i \in DOMAIN dbTrace : dbTrace[i] = "INSERT transaction"
    /\ ~Applied
    /\ db.transactiongroup = <<>>
    /\ Last(journal).authCode = payment.authCode
    /\ Last(journal).outcome = <<"APPROVED", "">>

\* ---------------------------------------------------------------------
\* The recent-transactions list, the details window and the receipt dialog

\* transactions[:31]: the number of rows the list keeps
ListCap == 31

\* journals of up to MaxRows records are read: more than the list keeps
MaxRows == 33

\* refreshes and clicks that fail write at most MaxLogLines lines to the
\* failure log
MaxLogLines == 2

\* the callbacks of timers and of clicks run while an event loop is running:
\* the application's own, or the one of an open message box
EventLoopRuns == pc \in {"idle", "dialog", "ceiling_dialog"}

\* the customer labels of the generated journals
JournalLabels ==
    << <<"1", "2", "3", "4", "5", " ", "-", " ", "J", " ", "S", "m", "i", "t", "h">>,
       <<"0", "0", "0", "0", "0", " ", "-", " ">>,
       <<>>,
       <<"9", "9", "9", "9", "9">>,
       <<"A", "B", "C">> >>

\* the k-th record process_payment wrote: the amount tells the records apart
WrittenRow(k) ==
    LET customer == JournalLabels[(k % 5) + 1]
        amountText == <<"$">> \o IntToDigits(k)
    IN  CASE k % 3 = 0 -> JournalRow(customer, amountText, <<"APPROVED", "">>,
                                     AuthCodes[(k % 4) + 1])
          [] k % 3 = 1 -> JournalRow(customer, amountText,
                                     DeclinedOutcome("INSUFFICIENT_FUNDS"), "")
          [] OTHER     -> JournalRow(customer, amountText, <<"unknown", "">>, "")

\* a record of which only the first two fields reached the file (the file
\* lies on a shared drive and is written without a lock)
TruncatedRow(k) == [customer |-> JournalLabels[(k % 5) + 1], amount |-> <<"$">> \o IntToDigits(k)]

\* a journal of n records, the cut-th of them truncated (none when cut = 0)
WrittenJournal(n, cut) ==
    [k \in 1..n |-> IF k = cut THEN TruncatedRow(k) ELSE WrittenRow(k)]

\* the list of fields csv.reader gives for a record: customer, amount,
\* outcome, time, and the auth code when the record has one (the time of
\* writing is not modelled, its field holds a placeholder)
CsvRow(r) ==
    IF "outcome" \notin DOMAIN r THEN <<r.customer, r.amount>>
    ELSE IF r.authCode = "" THEN <<r.customer, r.amount, r.outcome, "time">>
    ELSE <<r.customer, r.amount, r.outcome, "time", r.authCode>>

\* csv.reader on a file that was opened without newline="": every record
\* csv.writer wrote is followed by an empty row
CsvRead(file) ==
    [i \in 1..(2 * Len(file)) |-> IF i % 2 = 1 THEN CsvRow(file[(i + 1) \div 2]) ELSE <<>>]

\* if not row: continue
IsRecord(row) == row # <<>>

\* a cap one short of the code's, as its comment has it
CapThirty(rows) == SubSeq(rows, 1, IF Len(rows) < 30 THEN Len(rows) ELSE 30)

\* transactions[:31]
Capped(rows) == SubSeq(rows, 1, IF Len(rows) < ListCap THEN Len(rows) ELSE ListCap)

\* i[2] == "APPROVED", "DECLINED" in i[2], else (the explanations that
\* follow "DECLINED - " do not matter to the test)
StatusIcon(row) ==
    IF row[3] = <<"APPROVED", "">> THEN "approved"
    ELSE IF row[3][1] \in {"DECLINED", "DECLINED - "} THEN "declined"
    ELSE "warning"

\* f"{count} {status} {i[0]} - {i[1]}"
ListItem(count, row) ==
    [count |-> IntToDigits(count), status |-> StatusIcon(row),
     customer |-> row[1], amount |-> row[2]]

\* int(item.text().split(" ")[0])
ItemIndex(item) == DigitsToInt(item.count)

\* the number of rows the loop adds before i[2] raises IndexError
RECURSIVE ItemsAdded(_)
ItemsAdded(rows) ==
    IF rows = <<>> \/ Len(Head(rows)) < 3 THEN 0 ELSE 1 + ItemsAdded(Tail(rows))

\* lines 794-834: the timer's callback.  transactions is emptied first; a
\* missing file leaves it empty and the list as it was; a row of fewer than
\* three fields ends the loop with an IndexError that is logged
update_recent_transactions ==
    /\ EventLoopRuns
    /\ \E found \in BOOLEAN :
         IF ~found
         THEN /\ transactions' = <<>>
              /\ refreshOutcome' = "FileNotFoundError"
              /\ UNCHANGED <<recentTransactionsList, failureLog>>
         ELSE LET rows == Capped(Reverse(SelectSeq(CsvRead(journal), IsRecord)))
                  added == ItemsAdded(rows)
              IN  /\ added < Len(rows) => failureLog < MaxLogLines
                  /\ transactions' = rows
                  /\ recentTransactionsList' = [k \in 1..added |-> ListItem(k - 1, rows[k])]
                  /\ refreshOutcome' = IF added = Len(rows) THEN "done" ELSE "IndexError"
                  /\ failureLog' = IF added = Len(rows) THEN failureLog ELSE failureLog + 1
    /\ UNCHANGED <<formVars, pc, runs, amount, payment, ap, journal, alerts, gatewayCalls,
                   clipboard, mboxText, dbVars, escaped, postFailures, inFlight,
                   transactionDetails, emailDialog, customerStyle, accountChecked>>

\* lines 1394-1502: a click on an item of the list.  The item's leading
\* number indexes transactions; transaction[3] is the time.  Any exception
\* is logged and no window is shown.  The window is application-modal
show_transaction_details ==
    /\ AcceptsInput(pc)
    /\ transactionDetails = <<>>
    /\ \E k \in DOMAIN recentTransactionsList :
         LET index == ItemIndex(recentTransactionsList[k])
         IN  IF index < Len(transactions) /\ Len(transactions[index + 1]) >= 4
             THEN /\ transactionDetails' = <<transactions[index + 1]>>
                  /\ UNCHANGED failureLog
             ELSE /\ failureLog < MaxLogLines
                  /\ failureLog' = failureLog + 1
                  /\ UNCHANGED transactionDetails
    /\ UNCHANGED <<formVars, pc, runs, amount, payment, ap, journal, alerts, gatewayCalls,
                   clipboard, mboxText, dbVars, escaped, postFailures, inFlight,
                   transactions, recentTransactionsList, refreshOutcome, emailDialog,
                   customerStyle, accountChecked>>

\* account.email (row[19]) of the accounts of InitialAccounts
AccountEmail == (12345 :> "jsmith@example.com")

\* lines 1283-1334: get_email(name, amount, date, authCode).  Only IndexError
\* and UndefinedColumn are caught: a failed connect, the syntax error of an
\* empty account token and the TypeError of row[19] on a row that is None
\* leave get_email, and emailDialog.exec_() is not reached.  A token of
\* letters is read as a column name (UndefinedColumn)
get_email(name) ==
    LET account == SplitFirst(name, " ")
    IN  \E connected \in BOOLEAN :
          IF connected /\ account # <<>> /\ ~IsNumeric(account)
          THEN /\ emailDialog' = [state |-> "shown", email |-> "", lookup |-> "UndefinedColumn"]
               /\ UNCHANGED pc
          ELSE IF connected /\ IsNumeric(account) /\ DigitsToInt(account) \in DOMAIN db.account
          THEN /\ emailDialog' = [state |-> "shown", email |-> AccountEmail[DigitsToInt(account)],
                                  lookup |-> "row"]
               /\ UNCHANGED pc
          ELSE /\ emailDialog' = [state |-> "raised", email |-> "",
                                  lookup |-> IF ~connected THEN "OperationalError"
                                             ELSE IF account = <<>> THEN "SyntaxError"
                                             ELSE "no row"]
               /\ pc' \in AfterEscape

\* lines 1452-1457: the Receipt button of the details of an approved row
ReceiptClicked ==
    /\ EventLoopRuns
    /\ transactionDetails # <<>>
    /\ StatusIcon(transactionDetails[1]) = "approved"
    /\ emailDialog.state # "shown"
    /\ get_email(transactionDetails[1][1])
    /\ UNCHANGED <<formVars, runs, amount, payment, ap, journal, failureLog, alerts,
                   gatewayCalls, clipboard, mboxText, dbVars, escaped, postFailures,
                   inFlight, transactions, recentTransactionsList, refreshOutcome,
                   transactionDetails, customerStyle, accountChecked>>

\* the operator closes the receipt dialog
CloseEmailDialog ==
    /\ EventLoopRuns
    /\ emailDialog.state = "shown"
    /\ emailDialog' = NoEmailDialog
    /\ UNCHANGED <<formVars, pc, runs, amount, payment, ap, journal, failureLog, alerts,
                   gatewayCalls, clipboard, mboxText, dbVars, escaped, postFailures,
                   inFlight, transactions, recentTransactionsList, refreshOutcome,
                   transactionDetails, customerStyle, accountChecked>>

\* the operator closes the details window
CloseDetails ==
    /\ EventLoopRuns
    /\ transactionDetails # <<>>
    /\ emailDialog.state # "shown"
    /\ transactionDetails' = <<>>
    /\ emailDialog' = NoEmailDialog
    /\ UNCHANGED <<formVars, pc, runs, amount, payment, ap, journal, failureLog, alerts,
                   gatewayCalls, clipboard, mboxText, dbVars, escaped, postFailures,
                   inFlight, transactions, recentTransactionsList, refreshOutcome,
                   customerStyle, accountChecked>>

\* the application starts on a journal that earlier sessions wrote
InitRecent ==
    /\ \E n \in 0..MaxRows : \E cut \in {0, 1, n} : journal = WrittenJournal(n, cut)
    /\ customerInput = <<>>
    /\ amountInput = <<"$">>
    /\ cardNumberInput = <<>>
    /\ processEnabled = FALSE
    /\ lastChecked = <<>>
    /\ pc = "idle"
    /\ runs = 0
    /\ amount = 0
    /\ payment = NoPayment
    /\ ap = NoAp
    /\ failureLog = 0
    /\ alerts = <<>>
    /\ gatewayCalls = <<>>
    /\ clipboard = ""
    /\ mboxText = NoMsg
    /\ db = [account |-> InitialAccounts, transactiongroup |-> <<>>,
             transaction |-> <<>>, transactiongroupnote |-> <<>>]
    /\ conn = <<>>
    /\ nextval = 1
    /\ dbTrace = <<>>
    /\ dbAtCall = db
    /\ escaped = FALSE
    /\ postFailures = 0
    /\ inFlight = 0
    /\ transactions = <<>>
    /\ recentTransactionsList = <<>>
    /\ refreshOutcome = "none"
    /\ transactionDetails = <<>>
    /\ emailDialog = NoEmailDialog
    /\ customerStyle = "unset"
    /\ accountChecked = <<>>

NextRecent ==
    \/ update_recent_transactions
    \/ show_transaction_details
    \/ ReceiptClicked
    \/ CloseEmailDialog
    \/ CloseDetails

SpecRecent == InitRecent /\ [][NextRecent]_vars

\* every row of the journal is a record as process_payment writes it
JournalWellFormed == \A j \in DOMAIN journal : "outcome" \in DOMAIN journal[j]

\* the last refresh read the journal file
JournalRead == refreshOutcome \in {"done", "IndexError"}

C28_ItemsMatchTransactions ==
    \A k \in DOMAIN recentTransactionsList :
        LET index == ItemIndex(recentTransactionsList[k])
        IN  /\ index < Len(transactions)
            /\ transactions[index + 1][1] = recentTransactionsList[k].customer
            /\ transactions[index + 1][2] = recentTransactionsList[k].amount

\* C29: when the lookup of get_email finds no account row for the label of
\* an approved transaction (the query ran and gave no row, or the label's
\* token is no account number), the receipt dialog is shown with an empty
\* address, and no exception leaves get_email
C29_ReceiptDialogShown ==
    emailDialog.lookup \in {"no row", "UndefinedColumn"} =>
        /\ emailDialog.state = "shown"
        /\ emailDialog.email = ""

\* ---------------------------------------------------------------------
\* check_account

SentinelAccount == <<"0", "0", "0", "0", "0">>
SentinelLabel == <<"0", "0", "0", "0", "0", " ", "-", " ">>

\* account.first_name and account.last_name (row[2], row[1])
AccountName == (12345 :> <<"J", " ", "S", "m", "i", "t", "h">>)

\* account.startswith(prefix)
StartsWith(text, prefix) ==
    Len(text) >= Len(prefix) /\ SubSeq(text, 1, Len(prefix)) = prefix

\* str() of a numeric(.., 2) balance held in hundredths
DecimalText(h) ==
    IntToDigits(h \div 100) \o <<".", DigitOf[(h % 100) \div 10], DigitOf[h % 10]>>

\* the style after check_account(text) for a text that is not a five-digit
\* number: what the nested call leaves when customerInput.setText moves the
\* cursor (lines 1551-1554 and 1608-1610)
StyleAfter(text, style) ==
    IF StartsWith(text, SentinelLabel) THEN "green"
    ELSE IF IsNumeric(text) THEN style
    ELSE "red"

\* lines 1544-1621: check_account(customerInput.text()), called when the
\* cursor of the customer field moves.  For "00000" the field is set to
\* "00000 - " (the nested call styles it green and returns), and the outer
\* call goes on with its own argument "00000": it is numeric and five long,
\* so the connection is opened and the account is queried.  A failed
\* connect is logged
check_account(account) ==
    LET entered == IF account = SentinelAccount THEN SentinelLabel ELSE customerInput
        styled == IF account = SentinelAccount THEN StyleAfter(SentinelLabel, customerStyle)
                  ELSE customerStyle
    IN  IF StartsWith(account, SentinelLabel)
        THEN /\ customerStyle' = "green"
             /\ UNCHANGED <<customerInput, amountInput, dbTrace, failureLog>>
        ELSE IF IsNumeric(account) /\ Len(account) = 5
        THEN \E connected \in BOOLEAN :
               IF ~connected
               THEN /\ dbTrace' = Append(dbTrace, "connect")
                    /\ failureLog' = failureLog + 1
                    /\ customerInput' = entered
                    /\ customerStyle' = styled
                    /\ UNCHANGED amountInput
               ELSE /\ dbTrace' = dbTrace \o <<"connect", "SELECT account">>
                    /\ UNCHANGED failureLog
                    /\ IF DigitsToInt(account) \in DOMAIN db.account
                       THEN LET acct == DigitsToInt(account)
                            IN  /\ customerInput' = account \o <<" ", "-", " ">> \o AccountName[acct]
                                /\ customerStyle' = "green"
                                /\ amountInput' = IF db.account[acct] <= 0 THEN <<"$">>
                                                  ELSE <<"$">> \o DecimalText(db.account[acct])
                       ELSE /\ customerInput' = entered
                            /\ customerStyle' = styled
                            /\ UNCHANGED amountInput
        ELSE /\ customerStyle' = StyleAfter(account, customerStyle)
             /\ UNCHANGED <<customerInput, amountInput, dbTrace, failureLog>>

\* texts typed into the customer field
AccountPrefixes == { <<>>, <<"0", "0", "0">>, <<"1", "2", "3">>, <<"9", "9", "9">> }
AccountSamples ==
    {p \o t : p \in AccountPrefixes, t \in DigitStrings(MaxTail)}
        \cup {SentinelLabel, <<"A", "B", "C">>}

InitAccount ==
    /\ customerInput \in AccountSamples
    /\ amountInput = <<"$">>
    /\ cardNumberInput = <<>>
    /\ processEnabled = FALSE
    /\ lastChecked = <<>>
    /\ pc = "idle"
    /\ runs = 0
    /\ amount = 0
    /\ payment = NoPayment
    /\ ap = NoAp
    /\ journal = <<>>
    /\ failureLog = 0
    /\ alerts = <<>>
    /\ gatewayCalls = <<>>
    /\ clipboard = ""
    /\ mboxText = NoMsg
    /\ db = [account |-> InitialAccounts, transactiongroup |-> <<>>,
             transaction |-> <<>>, transactiongroupnote |-> <<>>]
    /\ conn = <<>>
    /\ nextval = 1
    /\ dbTrace = <<>>
    /\ dbAtCall = db
    /\ escaped = FALSE
    /\ postFailures = 0
    /\ inFlight = 0
    /\ transactions = <<>>
    /\ recentTransactionsList = <<>>
    /\ refreshOutcome = "none"
    /\ transactionDetails = <<>>
    /\ emailDialog = NoEmailDialog
    /\ customerStyle = "unset"
    /\ accountChecked = <<>>

\* lines 1748-1750: cursorPositionChanged of the customer field
CheckAccountSample ==
    /\ accountChecked = <<>>
    /\ accountChecked' = <<customerInput>>
    /\ check_account(customerInput)
    /\ UNCHANGED <<cardNumberInput, processEnabled, lastChecked, pc, runs, amount, payment,
                   ap, journal, alerts, gatewayCalls, clipboard, mboxText, db, conn,
                   nextval, dbAtCall, escaped, postFailures, inFlight, transactions,
                   recentTransactionsList, refreshOutcome, transactionDetails, emailDialog>>

SpecAccount == InitAccount /\ [][CheckAccountSample]_vars

\* C30: after check_account("00000") the field reads "00000 - ", it is
\* styled as accepted, and no database call was made: no connection was
\* opened and no query was run
C30_SentinelNoLookup ==
    accountChecked = <<SentinelAccount>> =>
        /\ customerInput = SentinelLabel
        /\ customerStyle = "green"
        /\ dbTrace = <<>>

\* ---------------------------------------------------------------------
\* Runs of process_payment one after another, with the timer running

\* the runs of process_payment that are started
MaxFlightRuns == 2

\* the form is filled in and the card number has been checked
InitFlight ==
    /\ customerInput \in { <<"1", "2", "3", "4", "5", " ", "-", " ", "J", " ", "S", "m", "i", "t", "h">>,
                           <<"9", "9", "9", "9", "9">> }
    /\ amountInput \in { <<"$", "5", "0", ".", "0", "0">>, <<"$", "3", "0", "0", "0", ".", "0", "1">> }
    /\ cardNumberInput = ValidCard
    /\ processEnabled = TRUE
    /\ lastChecked = <<ValidCard>>
    /\ pc = "idle"
    /\ runs = 0
    /\ amount = 0
    /\ payment = NoPayment
    /\ ap = NoAp
    /\ journal = <<>>
    /\ failureLog = 0
    /\ alerts = <<>>
    /\ gatewayCalls = <<>>
    /\ clipboard = ""
    /\ mboxText = NoMsg
    /\ db = [account |-> InitialAccounts, transactiongroup |-> <<>>,
             transaction |-> <<>>, transactiongroupnote |-> <<>>]
    /\ conn = <<>>
    /\ nextval = 1
    /\ dbTrace = <<>>
    /\ dbAtCall = db
    /\ escaped = FALSE
    /\ postFailures = 0
    /\ inFlight = 0
    /\ transactions = <<>>
    /\ recentTransactionsList = <<>>
    /\ refreshOutcome = "none"
    /\ transactionDetails = <<>>
    /\ emailDialog = NoEmailDialog
    /\ customerStyle = "unset"
    /\ accountChecked = <<>>

NextFlight ==
    \/ SubmitWithin(MaxFlightRuns)
    \/ update_recent_transactions
    \/ CeilingAlert \/ CeilingDialogClose
    \/ GatewayCall
    \/ UnknownAlert \/ BadRequestAlert
    \/ ExceptionHandler \/ DialogClose
    \/ ApEnter \/ ApConnect \/ ApSelectAccount \/ ApNotFound \/ ApLocation
    \/ ApInsertGroup \/ ApInsertTransaction \/ ApUpdateBalance \/ ApInsertNote
    \/ ApCommit \/ ApIndexError \/ ApException \/ ApReturn

SpecFlight == InitFlight /\ [][NextFlight]_vars

\* C26: at most one run of process_payment is in flight: there is a frame
\* of process_payment exactly while a run stands between its start and its
\* end (in the gateway call, in the database calls, in a modal dialog),
\* and there are never two.
C26_OneInFlight ==
    /\ inFlight <= 1
    /\ inFlight = 1 <=> pc \notin {"idle", "crashed"}

\* C26 witness: the second run waits in its dialog, and the journal refresh
\* ran while the journal had the first run's row only
C26_Witness ==
    /\ runs = 2
    /\ inFlight = 1
    /\ pc = "dialog"
    /\ Len(journal) = 2
    /\ refreshOutcome = "done"
    /\ Len(transactions) = 1
====
